---------------------------- MODULE Spec2Model ----------------------------
(***************************************************************************)
(* A model of linefuzzyfinder.cpp: the WordSet constructor (lowercasing,   *)
(* in-place collapsing of word breaks, word and character counting), the   *)
(* similarity score WordSet::measureContainment with its four metrics, and *)
(* Document::fuzzyFind, the linear best-match scan.                        *)
(*                                                                         *)
(* A std::string is a sequence of characters, a character a one-letter     *)
(* string.  An unordered_map is a function from its keys to their counts.  *)
(* A double is an IEEE-754 binary64 value, computed with its rounding.     *)
(*                                                                         *)
(* Three specifications share the variables:                               *)
(*   SpecWordSet  one WordSet is constructed, one loop iteration a step;   *)
(*   SpecScore    measureContainment of two WordSets, one metric a step;   *)
(*   Spec         a Document is built and fuzzyFind scans it.              *)
(***************************************************************************)
EXTENDS Integers, Sequences, FiniteSets

VARIABLES
    pc,             \* the position of the running operation
    wordSetLine,    \* the raw line a WordSet is built from (the query, in Spec)
    ctor,           \* WordSet::WordSet's frame: mLine, mWords, mRunes, begin, end, isBreakingWord
    candidateLine,  \* SpecScore: the raw line of the WordSet measureContainment is called on
    mc,             \* measureContainment's frame: self, other, words, runes, fullShared, wordShared, ret
    documentLines,  \* the raw lines handed to Document::Document
    mNonEmtpyLines, \* Document::mNonEmtpyLines: <<[first, second]>>
    wordSet,        \* fuzzyFind's argument
    idx,            \* fuzzyFind: how many entries the range-for has passed
    bestLine,       \* fuzzyFind: bestLine
    bestScore,      \* fuzzyFind: bestScore
    score,          \* fuzzyFind: the score of the entry scored last
    result          \* fuzzyFind: the value returned

vars == <<pc, wordSetLine, ctor, candidateLine, mc, documentLines,
          mNonEmtpyLines, wordSet, idx, bestLine, bestScore, score, result>>

---------------------------------------------------------------------------
(* Bounds of the model. *)

\* SpecWordSet: the longest raw line a WordSet is constructed from.
MaxRawLen == 4

\* SpecScore: the longest raw line of the two WordSets compared.
MaxScoreLen == 3

\* Spec: the most lines of a document, the most characters of all its lines
\* together, and the longest query.
MaxLines == 3

MaxDocChars == 3

MaxQueryLen == 2

\* The characters raw lines are drawn from.  Bytes above 0x7F are left out:
\* std::tolower of a negative char is undefined.
WordSetChars == {"a", "b", "A", " ", "."}

ScoreChars == {"a", "b", " "}

DocChars == {"a", "b", " "}

Strings(chars, n) == UNION {[1..k -> chars] : k \in 0..n}

---------------------------------------------------------------------------
(* Characters. *)

\* std::tolower in the "C" locale.
ToLower(c) ==
    CASE c = "A" -> "a"
      [] c = "B" -> "b"
      [] OTHER -> c

\* The bytes of the literal of doesBreakWord: the ASCII breaks, and every
\* byte of the UTF-8 encodings of the five typographic characters (find(c)
\* looks for one byte).
BreakChars ==
    {" ", "(", ")", ",", ".", "!", ":", ";", "\"",
     "0xE2", "0x80", "0x9C", "0x98", "0x99", "0x9D", "0x94"}

doesBreakWord(c) == c \in BreakChars

---------------------------------------------------------------------------
(* WordSet::WordSet. *)

EmptyTable == [k \in {} |-> 0]

\* ++iter->second, or emplace(key, 1).
Increment(table, key) ==
    IF key \in DOMAIN table
    THEN [table EXCEPT ![key] = @ + 1]
    ELSE [k \in DOMAIN table \cup {key} |-> IF k = key THEN 1 ELSE table[k]]

\* mLine(wordSetLine) and the for_each over it.
Lowered(line) == [i \in 1..Len(line) |-> ToLower(line[i])]

CtorFrame(line) ==
    [mLine |-> line, mWords |-> EmptyTable, mRunes |-> EmptyTable,
     begin |-> 0, end |-> 0, isBreakingWord |-> TRUE]

\* A collapse step that drops a run of breaks without writing the space.
CollapseStepNoSpace(f) ==
    LET c == f.mLine[f.end + 1] IN
    IF ~doesBreakWord(c)
    THEN [f EXCEPT !.mLine = [@ EXCEPT ![f.begin + 1] = c],
                   !.begin = @ + 1, !.isBreakingWord = FALSE, !.end = @ + 1]
    ELSE [f EXCEPT !.isBreakingWord = TRUE, !.end = @ + 1]

\* One iteration of the collapsing loop; begin and end are 0-based as in the
\* code, mLine[end] is f.mLine[f.end + 1].  The string is written in place
\* and its size never changes.
CollapseStep(f) ==
    LET c == f.mLine[f.end + 1] IN
    IF ~doesBreakWord(c)
    THEN [f EXCEPT !.mLine = [@ EXCEPT ![f.begin + 1] = c],
                   !.begin = @ + 1, !.isBreakingWord = FALSE, !.end = @ + 1]
    ELSE IF ~f.isBreakingWord
    THEN [f EXCEPT !.mLine = [@ EXCEPT ![f.begin + 1] = " "],
                   !.begin = @ + 1, !.isBreakingWord = TRUE, !.end = @ + 1]
    ELSE [f EXCEPT !.end = @ + 1]

\* One iteration of the counting loop.
CountStep(f) ==
    LET size == Len(f.mLine)
        unended == f.end < size
        breaksWord == unended /\ doesBreakWord(f.mLine[f.end + 1])
        cut == f.end > f.begin /\ (breaksWord \/ f.end >= size)
        word == SubSeq(f.mLine, f.begin + 1, f.end)
    IN [f EXCEPT
          !.mWords = IF cut THEN Increment(@, word) ELSE @,
          !.begin = IF cut THEN f.end + 1 ELSE @,
          !.mRunes = IF unended THEN Increment(@, f.mLine[f.end + 1]) ELSE @,
          !.end = @ + 1]

RECURSIVE CollapseLoop(_)
CollapseLoop(f) ==
    IF f.end < Len(f.mLine) THEN CollapseLoop(CollapseStep(f)) ELSE f

RECURSIVE CountLoop(_)
CountLoop(f) ==
    IF f.end <= Len(f.mLine) THEN CountLoop(CountStep(f)) ELSE f

\* The second loop declares its own begin and end.
StartCount(f) == [f EXCEPT !.begin = 0, !.end = 0]

\* The constructed object: the three members.
WordSetOf(line) ==
    LET f == CountLoop(StartCount(CollapseLoop(CtorFrame(Lowered(line)))))
    IN [mLine |-> f.mLine, mWords |-> f.mWords, mRunes |-> f.mRunes]

NoFrame == [mLine |-> <<>>, mWords |-> EmptyTable, mRunes |-> EmptyTable,
            begin |-> 0, end |-> 0, isBreakingWord |-> TRUE]

---------------------------------------------------------------------------
(* Doubles: IEEE-754 binary64, round to nearest, ties to even.             *)
(*                                                                         *)
(* A finite double is s * (h * 2^28 + l) * 2^e: its 53-bit significand     *)
(* followed by three zero bits, in two limbs of 28 bits, so that 2^27 <= h *)
(* < 2^28 (zero is h = l = 0).  An operation computes its result with the  *)
(* three extra bits (guard, round, sticky) and rounds them away.  The limbs *)
(* keep every intermediate value below 2^31.                               *)

Abs(x) == IF x < 0 THEN -x ELSE x

Sign(x) == IF x < 0 THEN -1 ELSE 1

Limb == 2^28

Top == 2^27

Chunk == 2^14

Num(s, h, l, e) == [k |-> "num", s |-> s, h |-> h, l |-> l, e |-> e]

Zero == Num(1, 0, 0, 0)

NaN == [k |-> "nan", s |-> 1, h |-> 0, l |-> 0, e |-> 0]

Inf(s) == [k |-> "inf", s |-> s, h |-> 0, l |-> 0, e |-> 0]

IsNaN(x) == x.k = "nan"

IsFinite(x) == x.k = "num"

IsZero(x) == x.k = "num" /\ x.h = 0 /\ x.l = 0

RECURSIVE BitLength(_)
BitLength(n) == IF n = 0 THEN 0 ELSE 1 + BitLength(n \div 2)

\* static_cast<double>(n) of an integer of fewer than 28 bits: exact.
FromInt(n) ==
    IF n = 0 THEN Zero
    ELSE LET len == BitLength(Abs(n))
         IN Num(Sign(n), Abs(n) * 2^(28 - len), 0, len - 56)

One == FromInt(1)

MinusOne == FromInt(-1)

\* The low bit set when lost: the sticky bit.
Sticky(l, lost) == IF lost /\ (l % 2) = 0 THEN l + 1 ELSE l

\* <<h, l>> shifted right by d bits, the bits shifted out kept as the sticky bit.
ShiftRight(h, l, d) ==
    IF d = 0 THEN [h |-> h, l |-> l]
    ELSE IF d < 28
    THEN [h |-> h \div (2^d),
          l |-> Sticky((l \div (2^d)) + (h % (2^d)) * 2^(28 - d), (l % (2^d)) # 0)]
    ELSE IF d < 56
    THEN [h |-> 0,
          l |-> Sticky(h \div (2^(d - 28)), (h % (2^(d - 28))) # 0 \/ l # 0)]
    ELSE [h |-> 0, l |-> Sticky(0, h # 0 \/ l # 0)]

\* <<h, l>> shifted left until its top bit is set (h, l not both 0).
RECURSIVE Normalized56(_, _, _)
Normalized56(h, l, e) ==
    IF h >= Top THEN [h |-> h, l |-> l, e |-> e]
    ELSE Normalized56(2 * h + (l \div Top), 2 * (l % Top), e - 1)

\* The three extra bits rounded away, to nearest, ties to even (Top <= h < Limb).
Round(s, h, l, e) ==
    LET low == l % 8
        up == low > 4 \/ (low = 4 /\ ((l \div 8) % 2) = 1)
        l0 == l - low
    IN IF ~up THEN Num(s, h, l0, e)
       ELSE IF l0 + 8 < Limb THEN Num(s, h, l0 + 8, e)
       ELSE IF h + 1 < Limb THEN Num(s, h + 1, 0, e)
       ELSE Num(s, Top, 0, e + 1)

\* |x| < |y| for finite x and y
MagnitudeLess(x, y) ==
    IF IsZero(y) THEN FALSE
    ELSE IF IsZero(x) THEN TRUE
    ELSE \/ x.e < y.e
         \/ x.e = y.e /\ x.h < y.h
         \/ x.e = y.e /\ x.h = y.h /\ x.l < y.l

\* a + b for finite non-zero a and b with |a| >= |b|
AddOrdered(a, b) ==
    LET bs == ShiftRight(b.h, b.l, a.e - b.e) IN
    IF a.s = b.s
    THEN LET l == a.l + bs.l
             h == a.h + bs.h + (l \div Limb)
         IN IF h >= Limb
            THEN LET r == ShiftRight(h, l % Limb, 1) IN Round(a.s, r.h, r.l, a.e + 1)
            ELSE Round(a.s, h, l % Limb, a.e)
    ELSE LET borrow == IF a.l < bs.l THEN 1 ELSE 0
             l == a.l - bs.l + borrow * Limb
             h == a.h - bs.h - borrow
         IN IF h = 0 /\ l = 0 THEN Zero
            ELSE LET n == Normalized56(h, l, a.e) IN Round(a.s, n.h, n.l, n.e)

\* x + y
Add(x, y) ==
    IF IsNaN(x) \/ IsNaN(y) THEN NaN
    ELSE IF ~IsFinite(x) /\ ~IsFinite(y) THEN (IF x.s = y.s THEN x ELSE NaN)
    ELSE IF ~IsFinite(x) THEN x
    ELSE IF ~IsFinite(y) THEN y
    ELSE IF IsZero(y) THEN x
    ELSE IF IsZero(x) THEN y
    ELSE IF MagnitudeLess(x, y) THEN AddOrdered(y, x)
    ELSE AddOrdered(x, y)

\* x * 2
Times2(x) == IF IsFinite(x) /\ ~IsZero(x) THEN [x EXCEPT !.e = @ + 1] ELSE x

\* x / static_cast<double>(k) for finite non-zero x and 0 < k < 2^15: the long
\* division of the 56 bits of x and BitLength(k) more, in chunks of 14 bits.
DivideNum(x, k) ==
    LET j == BitLength(k)
        n1 == x.h \div Chunk
        n2 == (n1 % k) * Chunk + (x.h % Chunk)
        n3 == (n2 % k) * Chunk + (x.l \div Chunk)
        n4 == (n3 % k) * Chunk + (x.l % Chunk)
        n5 == (n4 % k) * 2^j
        qh == (n1 \div k) * Chunk + (n2 \div k)
        ql == (n3 \div k) * Chunk + (n4 \div k)
        h == qh * 2^j + (ql \div (2^(28 - j)))
        l == Sticky((ql % (2^(28 - j))) * 2^j + (n5 \div k), (n5 % k) # 0)
    IN IF h >= Limb
       THEN LET r == ShiftRight(h, l, 1) IN Round(x.s, r.h, r.l, x.e - j + 1)
       ELSE Round(x.s, h, l, x.e - j)

\* x / static_cast<double>(k) for an integer 0 <= k < 2^15
DivideBy(x, k) ==
    IF IsNaN(x) THEN NaN
    ELSE IF ~IsFinite(x) THEN x
    ELSE IF k = 0 THEN (IF IsZero(x) THEN NaN ELSE Inf(x.s))
    ELSE IF IsZero(x) THEN x
    ELSE DivideNum(x, k)

\* static_cast<double>(n) / static_cast<double>(d) for integers n and d >= 0
Quotient(n, d) == DivideBy(FromInt(n), d)

\* x < y: false whenever either is NaN
Less(x, y) ==
    /\ ~IsNaN(x)
    /\ ~IsNaN(y)
    /\ IF ~IsFinite(x) THEN x.s = -1 /\ ~(~IsFinite(y) /\ y.s = -1)
       ELSE IF ~IsFinite(y) THEN y.s = 1
       ELSE IF IsZero(x) /\ IsZero(y) THEN FALSE
       ELSE IF IsZero(x) THEN y.s = 1
       ELSE IF IsZero(y) THEN x.s = -1
       ELSE IF x.s # y.s THEN x.s = -1
       ELSE IF x.s = 1 THEN MagnitudeLess(x, y)
       ELSE MagnitudeLess(y, x)

\* x == y: false whenever either is NaN
Equal(x, y) == ~IsNaN(x) /\ ~IsNaN(y) /\ x = y

\* x * 2 - 1
Rescale(x) == Add(Times2(x), MinusOne)

---------------------------------------------------------------------------
(* The metrics of WordSet::measureContainment. *)

RECURSIVE SumOver(_, _)
SumOver(S, f) ==
    IF S = {} THEN 0
    ELSE LET x == CHOOSE y \in S : TRUE IN f[x] + SumOver(S \ {x}, f)

\* What one item of t2 adds to itemsFound.
ItemFound(t1, item, count) ==
    IF item \in DOMAIN t1
    THEN IF count <= t1[item] THEN count ELSE t1[item]
    ELSE -count

\* An item of t2 missing from t1 adds nothing to itemsPossible.
ItemPossibleFoundOnly(t1, item, count) ==
    IF item \in DOMAIN t1
    THEN IF count <= t1[item] THEN t1[item] ELSE count
    ELSE 0

\* What one item of t2 adds to itemsPossible.
ItemPossible(t1, item, count) ==
    IF item \in DOMAIN t1
    THEN IF count <= t1[item] THEN t1[item] ELSE count
    ELSE count

\* measureContainment(t1, t2) of two tables.
measureContainmentTables(t1, t2) ==
    IF t1 = t2 THEN Quotient(1, 1)
    ELSE LET itemsFound ==
                 1 + SumOver(DOMAIN t2, [i \in DOMAIN t2 |-> ItemFound(t1, i, t2[i])])
             itemsPossible ==
                 1 + SumOver(DOMAIN t2, [i \in DOMAIN t2 |-> ItemPossible(t1, i, t2[i])])
         IN Quotient(itemsFound, itemsPossible)

\* The while loop of countShared: how far a from i and b from j agree (0-based).
RECURSIVE MatchLength(_, _, _, _, _)
MatchLength(a, b, i, j, length) ==
    IF i + length < Len(a) /\ j + length < Len(b) /\ a[i + length + 1] = b[j + length + 1]
    THEN MatchLength(a, b, i, j, length + 1)
    ELSE length

MaxOf(S) == IF S = {} THEN 0 ELSE CHOOSE m \in S : \A x \in S : x <= m

countShared(a, b) ==
    MaxOf({MatchLength(a, b, i, j, 0) : i \in 0..Len(a) - 1, j \in 0..Len(b) - 1})

\* measureShared(const std::string&, const std::string&)
measureSharedStrings(a, b) == Quotient(countShared(a, b) * 2, Len(a) + Len(b))

\* bestShared over a set of doubles, from 0, by "shared > bestShared".
RECURSIVE BestOf(_, _)
BestOf(S, best) ==
    IF S = {} THEN best
    ELSE LET x == CHOOSE y \in S : TRUE
         IN BestOf(S \ {x}, IF Less(best, x) THEN x ELSE best)

\* measureShared(const unordered_map&, const std::string&)
measureSharedTableString(a, b) ==
    BestOf({measureSharedStrings(w, b) : w \in DOMAIN a}, Zero)

\* measurementSum += ..., over the items in the order CHOOSE gives.  The
\* map's iteration order is unspecified and double addition is not
\* associative, but a sum of at most two terms from 0 is the same in every
\* order, and a line of fewer than five characters has at most two words.
RECURSIVE SumDoubles(_, _, _)
SumDoubles(S, f, measurementSum) ==
    IF S = {} THEN measurementSum
    ELSE LET x == CHOOSE y \in S : TRUE
         IN SumDoubles(S \ {x}, f, Add(measurementSum, f[x]))

\* measureShared(const unordered_map&, const unordered_map&)
measureSharedTables(a, b) ==
    DivideBy(SumDoubles(DOMAIN b, [w \in DOMAIN b |-> measureSharedTableString(a, w)], Zero),
             Cardinality(DOMAIN b))

\* The early out compares the other way round.
IsPerfectMatchInverted(self, other) == self.mLine # other.mLine

\* mLine == other.mLine
IsPerfectMatch(self, other) == self.mLine = other.mLine

wordsMetric(self, other) == measureContainmentTables(self.mWords, other.mWords)

runesMetric(self, other) == measureContainmentTables(self.mRunes, other.mRunes)

fullSharedMetric(self, other) == Rescale(measureSharedStrings(self.mLine, other.mLine))

wordSharedMetric(self, other) == Rescale(measureSharedTables(self.mWords, other.mWords))

Combine(words, runes, fullShared, wordShared) ==
    DivideBy(Add(Add(Add(words, runes), fullShared), wordShared), 4)

\* WordSet::measureContainment(const WordSet&)
measureContainment(self, other) ==
    IF IsPerfectMatch(self, other) THEN One
    ELSE Combine(wordsMetric(self, other), runesMetric(self, other),
                 fullSharedMetric(self, other), wordSharedMetric(self, other))

---------------------------------------------------------------------------
(* Values of the variables an operation does not use. *)

Unset == [k |-> "unset", s |-> 1, h |-> 0, l |-> 0, e |-> 0]

NoWordSet == [mLine |-> <<>>, mWords |-> EmptyTable, mRunes |-> EmptyTable]

NoCall ==
    [self |-> NoWordSet, other |-> NoWordSet, words |-> Unset, runes |-> Unset,
     fullShared |-> Unset, wordShared |-> Unset, ret |-> Unset]

ctorVars == <<wordSetLine, ctor>>

scoreVars == <<candidateLine, mc>>

docVars == <<documentLines, mNonEmtpyLines, wordSet, idx, bestLine, bestScore,
             score, result>>

IdleCtor == ctor = NoFrame

IdleScore == candidateLine = <<>> /\ mc = NoCall

IdleDocument ==
    /\ documentLines = <<>>
    /\ mNonEmtpyLines = <<>>
    /\ wordSet = NoWordSet
    /\ idx = 0
    /\ bestLine = 0
    /\ bestScore = Unset
    /\ score = Unset
    /\ result = 0

---------------------------------------------------------------------------
(* SpecWordSet: WordSet::WordSet(wordSetLine), one loop iteration a step. *)

InitWordSet ==
    /\ pc = "ctor"
    /\ wordSetLine \in Strings(WordSetChars, MaxRawLen)
    /\ IdleCtor
    /\ IdleScore
    /\ IdleDocument

\* The member initializer mLine(wordSetLine) and the for_each of tolower.
CtorLower ==
    /\ pc = "ctor"
    /\ ctor' = CtorFrame(Lowered(wordSetLine))
    /\ pc' = "collapse"
    /\ UNCHANGED <<wordSetLine, scoreVars, docVars>>

CtorCollapse ==
    /\ pc = "collapse"
    /\ ctor.end < Len(ctor.mLine)
    /\ ctor' = CollapseStep(ctor)
    /\ UNCHANGED <<pc, wordSetLine, scoreVars, docVars>>

CtorCollapseEnd ==
    /\ pc = "collapse"
    /\ ~(ctor.end < Len(ctor.mLine))
    /\ ctor' = StartCount(ctor)
    /\ pc' = "count"
    /\ UNCHANGED <<wordSetLine, scoreVars, docVars>>

CtorCount ==
    /\ pc = "count"
    /\ ctor.end <= Len(ctor.mLine)
    /\ ctor' = CountStep(ctor)
    /\ UNCHANGED <<pc, wordSetLine, scoreVars, docVars>>

CtorCountEnd ==
    /\ pc = "count"
    /\ ~(ctor.end <= Len(ctor.mLine))
    /\ pc' = "constructed"
    /\ UNCHANGED <<wordSetLine, ctor, scoreVars, docVars>>

NextWordSet ==
    \/ CtorLower
    \/ CtorCollapse
    \/ CtorCollapseEnd
    \/ CtorCount
    \/ CtorCountEnd

SpecWordSet == InitWordSet /\ [][NextWordSet]_vars

---------------------------------------------------------------------------
(* SpecScore: self.measureContainment(other), one metric a step. *)

InitScore ==
    /\ pc = "wordsets"
    /\ candidateLine \in Strings(ScoreChars, MaxScoreLen)
    /\ wordSetLine \in Strings(ScoreChars, MaxScoreLen)
    /\ mc = NoCall
    /\ IdleCtor
    /\ IdleDocument

\* The two WordSets are constructed and measureContainment is entered.
ScoreConstruct ==
    /\ pc = "wordsets"
    /\ mc' = [mc EXCEPT !.self = WordSetOf(candidateLine),
                        !.other = WordSetOf(wordSetLine)]
    /\ pc' = "earlyout"
    /\ UNCHANGED <<candidateLine, ctorVars, docVars>>

ScoreEarlyOut ==
    /\ pc = "earlyout"
    /\ IsPerfectMatch(mc.self, mc.other)
    /\ mc' = [mc EXCEPT !.ret = One]
    /\ pc' = "returned"
    /\ UNCHANGED <<candidateLine, ctorVars, docVars>>

ScoreWords ==
    /\ pc = "earlyout"
    /\ ~IsPerfectMatch(mc.self, mc.other)
    /\ mc' = [mc EXCEPT !.words = wordsMetric(mc.self, mc.other)]
    /\ pc' = "runes"
    /\ UNCHANGED <<candidateLine, ctorVars, docVars>>

ScoreRunes ==
    /\ pc = "runes"
    /\ mc' = [mc EXCEPT !.runes = runesMetric(mc.self, mc.other)]
    /\ pc' = "fullShared"
    /\ UNCHANGED <<candidateLine, ctorVars, docVars>>

ScoreFullShared ==
    /\ pc = "fullShared"
    /\ mc' = [mc EXCEPT !.fullShared = fullSharedMetric(mc.self, mc.other)]
    /\ pc' = "wordShared"
    /\ UNCHANGED <<candidateLine, ctorVars, docVars>>

ScoreWordShared ==
    /\ pc = "wordShared"
    /\ mc' = [mc EXCEPT !.wordShared = wordSharedMetric(mc.self, mc.other)]
    /\ pc' = "combine"
    /\ UNCHANGED <<candidateLine, ctorVars, docVars>>

ScoreCombine ==
    /\ pc = "combine"
    /\ mc' = [mc EXCEPT !.ret = Combine(mc.words, mc.runes, mc.fullShared, mc.wordShared)]
    /\ pc' = "returned"
    /\ UNCHANGED <<candidateLine, ctorVars, docVars>>

NextScore ==
    \/ ScoreConstruct
    \/ ScoreEarlyOut
    \/ ScoreWords
    \/ ScoreRunes
    \/ ScoreFullShared
    \/ ScoreWordShared
    \/ ScoreCombine

SpecScore == InitScore /\ [][NextScore]_vars

---------------------------------------------------------------------------
(* Spec: Document::Document(documentLines), then fuzzyFind(WordSet(wordSetLine)). *)

\* The documents of exactly l lines with at most n characters in all.
RECURSIVE DocumentsOf(_, _)
DocumentsOf(l, n) ==
    IF l = 0 THEN {<<>>}
    ELSE UNION {{<<line>> \o rest : rest \in DocumentsOf(l - 1, n - Len(line))} :
                line \in Strings(DocChars, n)}

\* readAllLines hands over at least one line.
Documents == UNION {DocumentsOf(l, MaxDocChars) : l \in 1..MaxLines}

\* The loop of the constructor from line i (0-based) on.
RECURSIVE NonEmptyFrom(_, _)
NonEmptyFrom(lines, i) ==
    IF i >= Len(lines) THEN <<>>
    ELSE IF Len(lines[i + 1]) > 0
    THEN <<[first |-> i, second |-> WordSetOf(lines[i + 1])]>> \o NonEmptyFrom(lines, i + 1)
    ELSE NonEmptyFrom(lines, i + 1)

\* score >= bestScore
IsBetterOrEqual(s, best) == Less(best, s) \/ Equal(s, best)

\* score > bestScore
IsBetter(s, best) == Less(best, s)

\* score > 1.0
IsAbovePerfect(s) == Less(One, s)

\* score == 1.0
IsPerfect(s) == Equal(s, One)

\* The score of the entry the range-for is at.
CurrentScore == measureContainment(mNonEmtpyLines[idx + 1].second, wordSet)

Init ==
    /\ pc = "document"
    /\ documentLines \in Documents
    /\ wordSetLine \in Strings(DocChars, MaxQueryLen)
    /\ mNonEmtpyLines = <<>>
    /\ wordSet = NoWordSet
    /\ idx = 0
    /\ bestLine = 0
    /\ bestScore = Unset
    /\ score = Unset
    /\ result = 0
    /\ IdleCtor
    /\ IdleScore

DocumentConstruct ==
    /\ pc = "document"
    /\ mNonEmtpyLines' = NonEmptyFrom(documentLines, 0)
    /\ pc' = "query"
    /\ UNCHANGED <<documentLines, wordSet, idx, bestLine, bestScore, score, result,
                   ctorVars, scoreVars>>

\* WordSet(wordSetLine) is built and fuzzyFind entered: bestLine = 0, bestScore = -1.0.
FuzzyFindEnter ==
    /\ pc = "query"
    /\ wordSet' = WordSetOf(wordSetLine)
    /\ bestLine' = 0
    /\ bestScore' = MinusOne
    /\ idx' = 0
    /\ pc' = "scan"
    /\ UNCHANGED <<documentLines, mNonEmtpyLines, score, result, ctorVars, scoreVars>>

\* const double score = line.second.measureContainment(wordSet);
FuzzyFindScore ==
    /\ pc = "scan"
    /\ idx < Len(mNonEmtpyLines)
    /\ score' = CurrentScore
    /\ pc' = "scored"
    /\ UNCHANGED <<documentLines, mNonEmtpyLines, wordSet, idx, bestLine, bestScore,
                   result, ctorVars, scoreVars>>

FuzzyFindPerfect ==
    /\ pc = "scored"
    /\ IsPerfect(score)
    /\ result' = mNonEmtpyLines[idx + 1].first
    /\ pc' = "done"
    /\ UNCHANGED <<documentLines, mNonEmtpyLines, wordSet, idx, bestLine, bestScore,
                   score, ctorVars, scoreVars>>

FuzzyFindBetter ==
    /\ pc = "scored"
    /\ ~IsPerfect(score)
    /\ IsBetter(score, bestScore)
    /\ bestLine' = mNonEmtpyLines[idx + 1].first
    /\ bestScore' = score
    /\ idx' = idx + 1
    /\ pc' = "scan"
    /\ UNCHANGED <<documentLines, mNonEmtpyLines, wordSet, score, result, ctorVars,
                   scoreVars>>

FuzzyFindNotBetter ==
    /\ pc = "scored"
    /\ ~IsPerfect(score)
    /\ ~IsBetter(score, bestScore)
    /\ idx' = idx + 1
    /\ pc' = "scan"
    /\ UNCHANGED <<documentLines, mNonEmtpyLines, wordSet, bestLine, bestScore, score,
                   result, ctorVars, scoreVars>>

FuzzyFindReturn ==
    /\ pc = "scan"
    /\ ~(idx < Len(mNonEmtpyLines))
    /\ result' = bestLine
    /\ pc' = "done"
    /\ UNCHANGED <<documentLines, mNonEmtpyLines, wordSet, idx, bestLine, bestScore,
                   score, ctorVars, scoreVars>>

Next ==
    \/ DocumentConstruct
    \/ FuzzyFindEnter
    \/ FuzzyFindScore
    \/ FuzzyFindPerfect
    \/ FuzzyFindBetter
    \/ FuzzyFindNotBetter
    \/ FuzzyFindReturn

Spec == Init /\ [][Next]_vars

---------------------------------------------------------------------------
(* The claims about WordSet::WordSet, under SpecWordSet. *)

Range(s) == {s[i] : i \in 1..Len(s)}

\* The length of the longest prefix of s without a breaking character.
RECURSIVE RunLength(_)
RunLength(s) ==
    IF s = <<>> \/ doesBreakWord(Head(s)) THEN 0 ELSE 1 + RunLength(Tail(s))

\* The maximal runs of non-breaking characters of s, in order.
RECURSIVE Runs(_)
Runs(s) ==
    IF s = <<>> THEN <<>>
    ELSE IF doesBreakWord(Head(s)) THEN Runs(Tail(s))
    ELSE <<SubSeq(s, 1, RunLength(s))>> \o Runs(SubSeq(s, RunLength(s) + 1, Len(s)))

RECURSIVE JoinBySpace(_)
JoinBySpace(ws) ==
    IF ws = <<>> THEN <<>>
    ELSE IF Len(ws) = 1 THEN ws[1]
    ELSE ws[1] \o <<" ">> \o JoinBySpace(Tail(ws))

\* The reference normalization: the lowercased runs joined by one space.
Normalized(line) == JoinBySpace(Runs(Lowered(line)))

\* C1: for every raw line the text the constructor stores is the reference
\* normalization of the line: its lowercased maximal runs of non-breaking
\* characters joined by exactly one space and nothing else (the empty string
\* for an empty or all-breaking line).
C1_StoredTextIsNormalization ==
    pc \in {"count", "constructed"} => ctor.mLine = Normalized(wordSetLine)

\* Lowercase, no leading or trailing break, every break a single space
\* between two non-breaking characters.
IsCanonical(s) ==
    \A i \in 1..Len(s) :
        /\ ToLower(s[i]) = s[i]
        /\ doesBreakWord(s[i]) =>
              /\ s[i] = " "
              /\ 1 < i
              /\ i < Len(s)
              /\ ~doesBreakWord(s[i + 1])

\* C8: normalization is idempotent on canonical input: a line that is
\* already lowercase, single-space separated and without leading or trailing
\* breaks is stored unchanged (same characters, same length).
C8_CanonicalUnchanged ==
    (pc \in {"count", "constructed"} /\ IsCanonical(wordSetLine))
        => ctor.mLine = wordSetLine

\* A canonical line of two words has been constructed.
C8_Witness ==
    /\ pc = "constructed"
    /\ IsCanonical(wordSetLine)
    /\ " " \in Range(wordSetLine)

\* The pieces of s between its spaces.
RECURSIVE Split(_)
Split(s) ==
    IF \A i \in 1..Len(s) : s[i] # " " THEN <<s>>
    ELSE LET i == CHOOSE j \in 1..Len(s) :
                      s[j] = " " /\ \A k \in 1..j - 1 : s[k] # " "
         IN <<SubSeq(s, 1, i - 1)>> \o Split(SubSeq(s, i + 1, Len(s)))

\* An empty text has no pieces.
Pieces(s) == IF s = <<>> THEN <<>> ELSE Split(s)

\* The multiset of the elements of a sequence, as a table of counts.
CountsOf(s) == [x \in Range(s) |-> Cardinality({i \in 1..Len(s) : s[i] = x})]

\* C9: the two tables are derived from the stored text: mWords is the
\* multiset of the pieces of mLine between single spaces, every key non-empty
\* and free of breaking characters, and mRunes is the multiset of the
\* characters of mLine, its counts summing to the length of mLine.
C9_TablesDerivedFromText ==
    pc = "constructed" =>
        /\ ctor.mWords = CountsOf(Pieces(ctor.mLine))
        /\ \A w \in DOMAIN ctor.mWords :
              w # <<>> /\ \A i \in 1..Len(w) : ~doesBreakWord(w[i])
        /\ ctor.mRunes = CountsOf(ctor.mLine)
        /\ SumOver(DOMAIN ctor.mRunes, ctor.mRunes) = Len(ctor.mLine)

---------------------------------------------------------------------------
(* The claims about WordSet::measureContainment, under SpecScore. *)

\* C3: with a query of zero words and a candidate of another text,
\* measureContainment divides by no zero: the word-shared metric and the
\* score returned are numbers, not NaN.
C3_EmptyQueryScoreIsNumber ==
    (pc = "returned" /\ DOMAIN mc.other.mWords = {} /\ mc.self.mLine # mc.other.mLine)
        => IsFinite(mc.wordShared) /\ IsFinite(mc.ret)

\* C4: when the two stored texts are equal, measureContainment returns
\* exactly 1.0 from the equality check: no table and no shared-sequence
\* metric has been computed.  In particular a line scores 1.0 against itself.
C4_EqualTextsScoreOne ==
    /\ (pc = "returned" /\ mc.self.mLine = mc.other.mLine) =>
           /\ mc.ret = One
           /\ mc.words = Unset
           /\ mc.runes = Unset
           /\ mc.fullShared = Unset
           /\ mc.wordShared = Unset
    /\ (pc = "returned" /\ candidateLine = wordSetLine) => mc.ret = One

\* Two different raw lines with the same non-empty stored text were compared.
C4_Witness ==
    /\ pc = "returned"
    /\ mc.self.mLine = mc.other.mLine
    /\ mc.self.mLine # <<>>
    /\ candidateLine # wordSetLine

InRange(x) == IsFinite(x) /\ ~Less(x, MinusOne) /\ ~Less(One, x)

\* C5: when the query has at least one word, each of the four metrics and
\* the combined score lies in [-1, 1].
C5_MetricsInRange ==
    DOMAIN mc.other.mWords # {} =>
        \A m \in {mc.words, mc.runes, mc.fullShared, mc.wordShared, mc.ret} :
            m = Unset \/ InRange(m)

\* A score below zero was combined from a negative words metric and the
\* lowest full-shared metric, for a query with a word.
C5_Witness ==
    /\ pc = "returned"
    /\ DOMAIN mc.other.mWords # {}
    /\ mc.self.mLine # <<>>
    /\ Less(mc.words, Zero)
    /\ mc.fullShared = MinusOne
    /\ Less(mc.ret, Zero)

---------------------------------------------------------------------------
(* The claims about Document::fuzzyFind, under Spec. *)

\* The scores of the entries i.. against the query, in order.
RECURSIVE ScoresFrom(_)
ScoresFrom(i) ==
    IF i > Len(mNonEmtpyLines) THEN <<>>
    ELSE <<measureContainment(mNonEmtpyLines[i].second, wordSet)>> \o ScoresFrom(i + 1)

Entries == 1..Len(mNonEmtpyLines)

\* C2: fuzzyFind on a Document of only empty lines ends in an error, never
\* in an ordinary return (the model's "done", which carries a line number).
C2_EmptyIndexNeverReturns ==
    ~(pc = "done" /\ Len(mNonEmtpyLines) = 0)

\* C10: when the Document has a non-empty line, whatever the query, the
\* line number returned is that of an indexed entry, a non-empty line.
C10_ReturnsIndexedLine ==
    (pc = "done" /\ Len(mNonEmtpyLines) > 0) =>
        /\ \E k \in Entries : mNonEmtpyLines[k].first = result
        /\ documentLines[result + 1] # <<>>

\* C6: with a non-empty line in the Document and a word in the query,
\* fuzzyFind returns the 0-based source line number (empty lines counted) of
\* the earliest entry whose score is maximal; the first entry's score is
\* above the initial -1.0.
C6_ReturnsEarliestBest ==
    (pc = "done" /\ Len(mNonEmtpyLines) > 0 /\ DOMAIN wordSet.mWords # {}) =>
        LET scoreOf == ScoresFrom(1) IN
        /\ Less(MinusOne, scoreOf[1])
        /\ \E k \in Entries :
              /\ result = mNonEmtpyLines[k].first
              /\ documentLines[result + 1] # <<>>
              /\ mNonEmtpyLines[k].second = WordSetOf(documentLines[result + 1])
              /\ k = Cardinality({i \in 1..result + 1 : documentLines[i] # <<>>})
              /\ \A j \in Entries : ~Less(scoreOf[k], scoreOf[j])
              /\ \A j \in 1..k - 1 : Less(scoreOf[j], scoreOf[k])

\* An empty first line, no perfect match, and a later entry that ties with
\* the one returned.
C6_Witness ==
    /\ pc = "done"
    /\ DOMAIN wordSet.mWords # {}
    /\ documentLines[1] = <<>>
    /\ LET scoreOf == ScoresFrom(1) IN
       /\ \A j \in Entries : ~IsPerfect(scoreOf[j])
       /\ \E k, j \in Entries :
             /\ result = mNonEmtpyLines[k].first
             /\ k < j
             /\ Equal(scoreOf[j], scoreOf[k])

\* C7: once an entry scores exactly 1.0 (its text equals the query's) the
\* scan stops there and returns its line number: the loop has not moved past
\* it, so no later entry is scored, whatever the earlier entries scored.
C7_PerfectMatchStopsScan ==
    pc = "done" =>
        LET scoreOf == ScoresFrom(1)
            perfect == {i \in Entries : IsPerfect(scoreOf[i])}
        IN /\ perfect = {i \in Entries : mNonEmtpyLines[i].second.mLine = wordSet.mLine}
           /\ perfect # {} =>
                 LET k == CHOOSE i \in perfect : \A j \in perfect : i <= j
                 IN /\ result = mNonEmtpyLines[k].first
                    /\ idx = k - 1
                    /\ score = One

\* The perfect match is neither the first nor the last entry, and an earlier
\* entry had become the best.
C7_Witness ==
    /\ pc = "done"
    /\ \E k \in Entries :
          /\ IsPerfect(measureContainment(mNonEmtpyLines[k].second, wordSet))
          /\ 1 < k
          /\ k < Len(mNonEmtpyLines)
          /\ result = mNonEmtpyLines[k].first
          /\ Less(MinusOne, bestScore)
          /\ bestLine # result

=============================================================================
